---------------------------- MODULE Spec2Model ----------------------------
(***************************************************************************)
(* A model of GuiViewport3D (src/src/screenComponents/viewport3d.cpp): the *)
(* construction of a viewport, its per-frame onDraw handler and the        *)
(* process-wide state that handler shares between viewport instances (the  *)
(* skybox texture cache, the function-static space-dust array, the engine  *)
(* emitters' timestamps and the GL state).                                 *)
(*                                                                         *)
(* Numbers.  Positions are integer vectors (tuples).  The skybox blend     *)
(* factor, a float in the code, is held in units of 1/FactorScale, rounded *)
(* down.  Elapsed time is held in units of 1/100 s.                        *)
(***************************************************************************)
EXTENDS Integers, Sequences, FiniteSets, TLC

(***************************************************************************)
(* Bounds of the model.                                                    *)
(***************************************************************************)
NumViewports == 2       \* GuiViewport3D instances alive in the process
MaxZones == 2           \* Zone entities the entity query yields
NumParticles == 2       \* stands for spacedust_particle_count
NumEntities == 2        \* entities with EngineEmitter, Transform, ImpulseEngine
MaxTime == 30           \* engine->getElapsedTime() stops advancing here

FactorScale == 100      \* a blend factor f is held as floor(f * FactorScale)
TimeStep == 5           \* one Tick advances the elapsed time by 0.05 s

Viewports == 1..NumViewports
Entities == 1..NumEntities
DustIndices == 1..(2 * NumParticles)

VARIABLES
    rect,               \* [v]: the element's rectangle, [w, h] (rect.size)
    camera_position,    \* [v]: glm::vec3
    camera_yaw,         \* [v]: degrees
    camera_pitch,       \* [v]: degrees
    show_callsigns,     \* [v]
    show_headings,      \* [v]
    show_spacedust,     \* [v]
    view_matrix,        \* [v]
    projection_matrix,  \* [v]
    gl,                 \* the GL context's state
    skybox_textures,    \* the names the static cache holds a texture for
    texture_creations,  \* gl::CubemapTexture constructions, per name
    default_skybox,     \* gameGlobalInfo->default_skybox, or NoInfo
    zones,              \* sp::ecs::Query<Zone, sp::Transform>, in query order
    emitter,            \* [e]: impulse.actual, last_engine_particle_time, emitters
    elapsed,            \* engine->getElapsedTime()
    my_spaceship,       \* the player ship entity, or NoShip
    callsigns,          \* sp::ecs::Query<CallSign, sp::Transform>, in query order
    space_dust,         \* the function-static std::vector<glm::vec3>
    spacedust_buffer,   \* [v]: the position range of the instance's GL buffer
    spacedust_signs,    \* [v]: the sign range of the instance's GL buffer
    frame,              \* what the most recent onDraw call did
    screen              \* what the most recent worldToScreen call from outside
                        \* onDraw was given and returned

vars == <<rect, camera_position, camera_yaw, camera_pitch, show_callsigns,
          show_headings, show_spacedust, view_matrix, projection_matrix,
          gl, skybox_textures, texture_creations, default_skybox, zones,
          emitter, elapsed, my_spaceship, callsigns, space_dust, spacedust_buffer,
          spacedust_signs, frame, screen>>

(***************************************************************************)
(* Vectors.                                                                *)
(***************************************************************************)
Vec2Sub(a, b) == <<a[1] - b[1], a[2] - b[2]>>
Vec3Add(a, b) == <<a[1] + b[1], a[2] + b[2], a[3] + b[3]>>
Vec3Sub(a, b) == <<a[1] - b[1], a[2] - b[2], a[3] - b[3]>>
Length2(d) == d[1] * d[1] + d[2] * d[2] + d[3] * d[3]
Dot2(a, b) == a[1] * b[1] + a[2] * b[2]
Cross2(a, b) == a[1] * b[2] - a[2] * b[1]
Min(a, b) == IF a < b THEN a ELSE b
Max(a, b) == IF a > b THEN a ELSE b

(***************************************************************************)
(* math/centerOfMass.h: insidePolygon and distanceToEdge.  The header is   *)
(* not part of the sources at hand; both follow their description: "whose  *)
(* outline polygon contains the ... position" and "planar distance to the  *)
(* zone boundary".                                                         *)
(***************************************************************************)
\* Does the ray from point towards +x cross the edge a-b (even-odd rule)?
EdgeCrossed(a, b, point) ==
    /\ (a[2] > point[2]) # (b[2] > point[2])
    /\ IF b[2] - a[2] > 0
       THEN (point[1] - a[1]) * (b[2] - a[2]) < (b[1] - a[1]) * (point[2] - a[2])
       ELSE (point[1] - a[1]) * (b[2] - a[2]) > (b[1] - a[1]) * (point[2] - a[2])

PrevIndex(path, i) == IF i = 1 THEN Len(path) ELSE i - 1

insidePolygon(path, point) ==
    Cardinality({i \in 1..Len(path) :
                    EdgeCrossed(path[i], path[PrevIndex(path, i)], point)}) % 2 = 1

\* The squared distance from point to the segment a-b, as a fraction <<num, den>>.
SegmentDist2(a, b, point) ==
    LET ab == Vec2Sub(b, a)
        ap == Vec2Sub(point, a)
        bp == Vec2Sub(point, b)
        len2 == Dot2(ab, ab)
        t == Dot2(ap, ab)
    IN  IF len2 = 0 \/ t <= 0 THEN <<Dot2(ap, ap), 1>>
        ELSE IF t >= len2 THEN <<Dot2(bp, bp), 1>>
        ELSE <<Cross2(ap, ab) * Cross2(ap, ab), len2>>

FracLeq(p, q) == p[1] * q[2] <= q[1] * p[2]

\* The squared distance from point to the nearest edge of path, as a fraction.
distanceToEdge2(path, point) ==
    LET ds == {SegmentDist2(path[i], path[PrevIndex(path, i)], point) : i \in 1..Len(path)}
    IN  CHOOSE d \in ds : \A e \in ds : FracLeq(d, e)

\* The greatest r in lo..hi with r * r <= x, given lo * lo <= x.
RECURSIVE FloorSqrt(_, _, _)
FloorSqrt(x, lo, hi) ==
    IF lo >= hi THEN lo
    ELSE LET mid == (lo + hi + 1) \div 2
         IN  IF mid * mid <= x THEN FloorSqrt(x, mid, hi) ELSE FloorSqrt(x, lo, mid - 1)

\* floor(FactorScale * sqrt(d2) / fade), cut off above at limit.
ScaledRatio(d2, fade, limit) ==
    FloorSqrt((FactorScale * FactorScale * d2[1]) \div (d2[2] * fade * fade), 0, limit)

(***************************************************************************)
(* Values of the program.                                                  *)
(***************************************************************************)
NoInfo == "NoInfo"              \* gameGlobalInfo is null
NoShip == [exists |-> FALSE]    \* my_spaceship is no entity
NoComponent == <<>>             \* getComponent<T>() returns nothing
NoMatrix == [assigned |-> FALSE]    \* a glm::mat4 member before its first assignment
NoScreen == [called |-> FALSE]  \* worldToScreen was not called yet

EmptySkybox == ""
SkyboxPath(id) == <<"skybox/", id>>     \* "skybox/" + id
DefaultSkyboxName == SkyboxPath("default")

CameraFov == 60         \* PreferencesManager::get("main_screen_camera_fov", "60")
MaxDustDist == 500
MinDustDist == 100
EmitInterval == 10      \* 0.1f seconds
RatioLimit == 4 * FactorScale   \* ratios above this are held as this

(***************************************************************************)
(* The skybox pass: lines 190-219.                                         *)
(***************************************************************************)
SkyboxName ==
    IF default_skybox # NoInfo THEN SkyboxPath(default_skybox) ELSE DefaultSkyboxName

\* auto pos = t.getPosition() - glm::vec2(camera_position.x, camera_position.y);
ZoneRelative(zone, camera) == Vec2Sub(zone.position, <<camera[1], camera[2]>>)

ClampUnclamped(x, lo, hi) == x
Clamp(x, lo, hi) == IF x < lo THEN lo ELSE IF hi < x THEN hi ELSE x

LocalSkyboxFactor(zone, pos) ==
    IF zone.skybox_fade_distance <= 0
    THEN FactorScale
    ELSE Clamp(ScaledRatio(distanceToEdge2(zone.outline, pos),
                           zone.skybox_fade_distance, RatioLimit),
               0, FactorScale)

\* The loop over the zones from the i-th on: the first zone with a skybox whose
\* outline holds pos ends it (break); zone is the index the loop ended at, 0 if
\* it ran to the end.
RECURSIVE ZoneScan(_, _, _, _)
ZoneScan(zs, camera, global, i) ==
    IF i > Len(zs)
    THEN [name |-> global, factor |-> 0, zone |-> 0]
    ELSE IF zs[i].skybox = EmptySkybox
    THEN ZoneScan(zs, camera, global, i + 1)
    ELSE IF insidePolygon(zs[i].outline, ZoneRelative(zs[i], camera))
    THEN [name |-> SkyboxPath(zs[i].skybox),
          factor |-> LocalSkyboxFactor(zs[i], ZoneRelative(zs[i], camera)),
          zone |-> i]
    ELSE ZoneScan(zs, camera, global, i + 1)

LocalSkybox(v) == ZoneScan(zones, camera_position[v], SkyboxName, 1)

\* auto t = skybox_textures[name].get(); if (!t) { ... make_unique ... }
TextureAlwaysMissing(cache, name) == TRUE
TextureMissing(cache, name) == name \notin cache

\* The names the frame constructs a texture for, in order: the global name, then
\* the local name, each looked up in the cache as the one before left it.
TexturesCreated(cache, global, local) ==
    LET first == IF TextureMissing(cache, global) THEN <<global>> ELSE <<>>
        cache1 == cache \cup {global}
    IN  first \o (IF TextureMissing(cache1, local) THEN <<local>> ELSE <<>>)

CountIn(seq, x) == Cardinality({i \in 1..Len(seq) : seq[i] = x})

(***************************************************************************)
(* The engine particle pass: lines 261-278.                                *)
(***************************************************************************)
ThrottleAlwaysOn(em) == TRUE
ThrottleOn(em) == em.actual # 0

IntervalAlways(em) == TRUE
IntervalPassed(em) == elapsed - em.last_engine_particle_time > EmitInterval

Emits(em) == ThrottleOn(em) /\ IntervalPassed(em)

\* the timestamp is no longer the one the entity was created with
HasEmitted(em) == em.last_engine_particle_time # 0

\* ParticleEngine::spawn calls per entity: one per emitter of an emitting entity.
Spawned == [e \in Entities |-> IF Emits(emitter[e]) THEN emitter[e].emitters ELSE 0]

EmitterAfter(em) ==
    IF Emits(em) THEN [em EXCEPT !.last_engine_particle_time = elapsed] ELSE em

(***************************************************************************)
(* The space dust pass: lines 288-338.  Pair k holds the array's elements  *)
(* n = 2k-2 and n+1 = 2k-1 of the code, here the indices 2k-1 and 2k.      *)
(***************************************************************************)
Pairs == 1..NumParticles
First(k) == 2 * k - 1
PairOf(i) == (i + 1) \div 2

DustRunsShipless(v) == show_spacedust[v]
DustRuns(v) == show_spacedust[v] /\ my_spaceship.exists

DustCenter(v) ==
    IF my_spaceship.exists /\ my_spaceship.transform # NoComponent
    THEN <<my_spaceship.transform[1], my_spaceship.transform[2], 0>>
    ELSE camera_position[v]

\* glm::vec2{0, 0}
NoVelocity == [velocity |-> <<0, 0>>, divisor |-> 1]

\* physics->getVelocity() / 100.f, as the velocity it divides
DustVector ==
    IF my_spaceship.exists /\ my_spaceship.physics # NoComponent
    THEN [velocity |-> my_spaceship.physics, divisor |-> 100]
    ELSE NoVelocity

OutsideShellMaxOnly(p, center) ==
    Length2(Vec3Sub(p, center)) > MaxDustDist * MaxDustDist
OutsideShell(p, center) ==
    \/ Length2(Vec3Sub(p, center)) > MaxDustDist * MaxDustDist
    \/ Length2(Vec3Sub(p, center)) < MinDustDist * MinDustDist

\* The pairs the loop respawns: it tests space_dust[n] only.
Respawned(dust, center) == {k \in Pairs : OutsideShell(dust[First(k)], center)}

SpaceDustFirstOnly(dust, center, rnd) ==
    [i \in DustIndices |->
        IF PairOf(i) \in Respawned(dust, center) /\ i = First(PairOf(i))
        THEN Vec3Add(center, rnd[PairOf(i)])
        ELSE dust[i]]
\* The array after the loop; rnd[k] is the vector of the three random() calls.
SpaceDustAfter(dust, center, rnd) ==
    [i \in DustIndices |->
        IF PairOf(i) \in Respawned(dust, center)
        THEN Vec3Add(center, rnd[PairOf(i)])
        ELSE dust[i]]

UpdateAlways(dust, center) == TRUE
UpdateRequired(dust, center) == Respawned(dust, center) # {}

(***************************************************************************)
(* The instance's GL buffer spacedust_buffer[0]: lines 112-131 and         *)
(* 326-335.  The buffer is held as its 4-byte words, the 2 * N positions   *)
(* first and the 2 * N signs behind them; a call that writes it is given   *)
(* its offset and size in bytes, as the code gives them.                   *)
(***************************************************************************)
SizeofFloat == 4
SizeofVec3 == 3 * SizeofFloat
BufferSize == 2 * NumParticles * (SizeofVec3 + SizeofFloat)
SignOffset == 2 * NumParticles * SizeofVec3
BufferWords == 1..(BufferSize \div SizeofFloat)

\* a word read from beyond the end of the array a call is given
NoFloat == 0

\* the floats of an array of glm::vec3, as data() hands them over
FloatsOf(positions) ==
    [w \in 1..(3 * Len(positions)) |-> positions[((w - 1) \div 3) + 1][((w - 1) % 3) + 1]]

\* glBufferSubData(GL_ARRAY_BUFFER, offset, size, data)
glBufferSubData(buffer, offset, size, data) ==
    [w \in DOMAIN buffer |->
        LET byte == SizeofFloat * (w - 1)
            from == w - (offset \div SizeofFloat)
        IN  IF offset <= byte /\ byte < offset + size
            THEN IF from \in DOMAIN data THEN data[from] ELSE NoFloat
            ELSE buffer[w]]

\* lines 116-122
Signs == [n \in DustIndices |-> IF n % 2 = 1 THEN -1 ELSE 1]

\* the two ranges that glVertexAttribPointer binds at lines 332-333
PositionsOf(buffer) ==
    [i \in DustIndices |-> <<buffer[3 * i - 2], buffer[3 * i - 1], buffer[3 * i]>>]
SignsOf(buffer) == [n \in DustIndices |-> buffer[(SignOffset \div SizeofFloat) + n]]
Buffer(positions, signs) == FloatsOf(positions) \o signs

\* line 328: the range the frame's upload covers
UploadSizeWholeBuffer(dust) == Len(dust) * (SizeofVec3 + SizeofFloat)
UploadSize(dust) == Len(dust) * SizeofVec3
NoUpload == [offset |-> 0, size |-> 0]
Upload(dust) == [offset |-> 0, size |-> UploadSize(dust)]

\* lines 326-329: the buffer after the frame's upload of the array dust
Uploaded(buffer, dust) ==
    glBufferSubData(buffer, Upload(dust).offset, Upload(dust).size, FloatsOf(dust))


(***************************************************************************)
(* The camera: lines 173-182.  A matrix is held as the values it is        *)
(* composed from and applied to a vector as glm composes it.  Angles are   *)
(* multiples of 30 degrees; a cosine is held in units of 1/TrigScale.      *)
(***************************************************************************)
TrigScale == 1000

CosTable == <<1000, 866, 500, 0, -500, -866, -1000, -866, -500, 0, 500, 866>>
CosDeg(a) == CosTable[((a % 360) \div 30) + 1]
SinDeg(a) == CosDeg(a - 90)

\* 1 / tan(fov / 2) in units of 1/TrigScale, for the fields of view in use
CotHalf(fov) == CASE fov = 60 -> 1732
                  [] fov = 90 -> 1000
                  [] fov = 120 -> 577

\* glm::rotate(m, angle, axis) multiplies m by the rotation from the right: these
\* are the rotations about the z and the x axis, applied to the vector p
RotateZNone(p, a) == p
RotateZ(p, a) ==
    <<(p[1] * CosDeg(a) - p[2] * SinDeg(a)) \div TrigScale,
      (p[1] * SinDeg(a) + p[2] * CosDeg(a)) \div TrigScale,
      p[3]>>
RotateX(p, a) ==
    <<p[1],
      (p[2] * CosDeg(a) - p[3] * SinDeg(a)) \div TrigScale,
      (p[2] * SinDeg(a) + p[3] * CosDeg(a)) \div TrigScale>>

\* glm::perspective(glm::radians(camera_fov), rect.size.x / rect.size.y, 1.f, 25000.f)
Perspective(fov, size) ==
    [assigned |-> TRUE, fov |-> fov, aspect |-> <<size.w, size.h>>, near |-> 1, far |-> 25000]

\* lines 176-182: rotate(90, x), scale(1, 1, -1), rotate(-pitch, x),
\* rotate(-(yaw + 90), z), translate(-camera_position)
ViewMatrix(yaw, pitch, camera) ==
    [assigned |-> TRUE, yaw |-> yaw, pitch |-> pitch,
     translation |-> <<0 - camera[1], 0 - camera[2], 0 - camera[3]>>]

\* view_matrix * glm::vec4(world, 1.f): the factor composed last acts first
ViewApply(m, world) ==
    LET translated == Vec3Add(world, m.translation)
        yawed == RotateZ(translated, 0 - (m.yaw + 90))
        pitched == RotateX(yawed, 0 - m.pitch)
        scaled == <<pitched[1], pitched[2], 0 - pitched[3]>>
    IN  RotateX(scaled, 90)

(***************************************************************************)
(* GuiViewport3D::worldToScreen: lines 466-487.  With w = -view_pos.z = 0  *)
(* the perspective division gives no finite x and y.                       *)
(***************************************************************************)
worldToScreen(view, projection, r, world) ==
    LET view_pos == ViewApply(view, world)
        w == 0 - view_pos[3]
        cot == CotHalf(projection.fov)
    IN  IF w = 0
        THEN [finite |-> FALSE, z |-> w]
        ELSE LET ndc_x == (((view_pos[1] * cot) \div w) * projection.aspect[2])
                             \div projection.aspect[1]
                 ndc_y == (view_pos[2] * cot) \div w
             IN  [finite |-> TRUE,
                  x |-> r.x + (r.w * (ndc_x + TrigScale)) \div (2 * TrigScale),
                  y |-> r.y + (r.h * (TrigScale - ndc_y)) \div (2 * TrigScale),
                  z |-> w]

(***************************************************************************)
(* The GL state onDraw leaves behind: lines 378-380, 423-426 and 463.      *)
(***************************************************************************)
GLDefault ==
    [depth_mask |-> TRUE, depth_test |-> FALSE, cull_face |-> FALSE,
     blend |-> FALSE, blend_func |-> <<"ONE", "ZERO">>, viewport |-> "unset"]

GLAfterFrame ==
    [depth_mask |-> TRUE, depth_test |-> FALSE, cull_face |-> FALSE,
     blend |-> TRUE, blend_func |-> <<"SRC_ALPHA", "ONE_MINUS_SRC_ALPHA">>,
     viewport |-> "physical size"]

\* The GL state as onDraw's own calls set it, from the state g it starts in:
\* glViewport, glEnable(GL_DEPTH_TEST), glEnable(GL_CULL_FACE) (lines 159-171)
GLFrameStart(g) ==
    [g EXCEPT !.viewport = "element rectangle", !.depth_test = TRUE, !.cull_face = TRUE]
\* glDepthMask(GL_FALSE) (line 185)
GLSkybox(g) == [GLFrameStart(g) EXCEPT !.depth_mask = FALSE]
\* glDepthMask(GL_TRUE) (line 258)
GLSceneMaskOff(g) == GLSkybox(g)
GLScene(g) == [GLSkybox(g) EXCEPT !.depth_mask = TRUE]
\* glDisable(GL_DEPTH_TEST) in the reticle pass (line 345)
GLReticle(g) == [GLScene(g) EXCEPT !.depth_test = FALSE]
\* lines 378-380, after a frame with or without reticle pass
GLReset(g, reticle) ==
    [(IF reticle THEN GLReticle(g) ELSE GLScene(g))
       EXCEPT !.depth_mask = TRUE, !.blend = FALSE, !.cull_face = TRUE]
\* lines 423-426
GLHudKeepsDepthTest(g, reticle) ==
    [GLReset(g, reticle) EXCEPT !.cull_face = FALSE, !.blend = TRUE,
                                !.blend_func = <<"SRC_ALPHA", "ONE_MINUS_SRC_ALPHA">>]
GLHud(g, reticle) ==
    [GLReset(g, reticle) EXCEPT !.cull_face = FALSE, !.depth_test = FALSE, !.blend = TRUE,
                                !.blend_func = <<"SRC_ALPHA", "ONE_MINUS_SRC_ALPHA">>]
\* glViewport(0, 0, physical size) (line 463)
GLEnd(g, reticle) == [GLHud(g, reticle) EXCEPT !.viewport = "physical size"]

(***************************************************************************)
(* The targeting reticle: lines 340-376.                                   *)
(***************************************************************************)
DefaultRadius == 300

\* entity.getComponent<T>(): nothing for an entity that does not exist
Component(entity, name) == IF entity.exists THEN entity[name] ELSE NoComponent

\* target_comp && target_comp->entity
ReticleDrawn ==
    /\ Component(my_spaceship, "target") # NoComponent
    /\ Component(my_spaceship, "target").entity.exists

\* physics->getSize().x, or 300 without physics
Radius(size) == IF size # NoComponent THEN size[1] ELSE DefaultRadius

NoReticle == [drawn |-> FALSE]

\* The billboard: the model matrix is the identity unless the target has a
\* transform; the colour's alpha carries radius * 2.5, held as its double.
Reticle ==
    IF ReticleDrawn
    THEN LET target == Component(my_spaceship, "target").entity
         IN  [drawn |-> TRUE,
              target |-> target,
              at |-> IF Component(target, "transform") # NoComponent
                     THEN <<target.transform[1], target.transform[2], 0>>
                     ELSE <<0, 0, 0>>,
              alpha2 |-> 5 * Radius(Component(target, "size"))]
    ELSE NoReticle

(***************************************************************************)
(* The HUD text: lines 428-461.                                            *)
(***************************************************************************)
CallsignDistance == 10000
CallsignAlpha == 128
CallsignSize == 20
HeadingDistance == 2500
HeadingStep == 30

\* entity == my_spaceship
IsPlayer(entity) == my_spaceship.exists /\ entity.id = my_spaceship.id

\* worldToScreen as onDraw calls it: with the matrices this frame assigned
FrameScreen(v, world) ==
    worldToScreen(ViewMatrix(camera_yaw[v], camera_pitch[v], camera_position[v]),
                  Perspective(CameraFov, rect[v]), rect[v], world)

\* the point a callsign is projected from
CallsignPoint(entity) ==
    <<entity.transform[1], entity.transform[2], Radius(entity.size)>>

\* screen_position.z < 0.0f and screen_position.z > 10000.0f: continue
CallsignAnyDepth(z) == TRUE
CallsignInRange(z) == ~(z < 0) /\ ~(z > CallsignDistance)

\* glm::u8vec4(255, 255, 255, 128 * distance_factor) and 20 * distance_factor,
\* the size held in units of 1/CallsignDistance
CallsignLabel(v, entity) ==
    LET at == FrameScreen(v, CallsignPoint(entity))
    IN  [id |-> entity.id, at |-> at,
         alpha |-> (CallsignAlpha * (CallsignDistance - at.z)) \div CallsignDistance,
         size |-> CallsignSize * (CallsignDistance - at.z)]

\* the drawText calls of the callsign loop, in query order
CallsignLabels(v) ==
    IF show_callsigns[v]
    THEN LET drawn == SelectSeq(callsigns,
                         LAMBDA entity :
                            /\ ~IsPlayer(entity)
                            /\ CallsignInRange(FrameScreen(v, CallsignPoint(entity)).z))
         IN  [i \in 1..Len(drawn) |-> CallsignLabel(v, drawn[i])]
    ELSE <<>>

\* vec2FromAngle(angle) * distance
vec2FromAngle(angle, distance) ==
    <<(CosDeg(angle) * distance) \div TrigScale, (SinDeg(angle) * distance) \div TrigScale>>

HeadingAngles == [i \in 1..(360 \div HeadingStep) |-> (i - 1) * HeadingStep]

\* show_headings && my_spaceship, and the ship has a transform
HeadingsRun(v) ==
    /\ show_headings[v]
    /\ my_spaceship.exists
    /\ Component(my_spaceship, "transform") # NoComponent

\* the headings the loop goes through: the world point and where it projects to
Headings(v) ==
    IF HeadingsRun(v)
    THEN [i \in 1..Len(HeadingAngles) |->
            LET offset == vec2FromAngle(HeadingAngles[i] - 90, HeadingDistance)
                world == <<my_spaceship.transform[1] + offset[1],
                           my_spaceship.transform[2] + offset[2], 0>>
            IN  [angle |-> HeadingAngles[i], world |-> world, at |-> FrameScreen(v, world)]]
    ELSE <<>>

\* if (screen_pos.z > 0.0f) renderer.drawText(...)
HeadingBehindToo(z) == TRUE
HeadingInFront(z) == z > 0

HeadingLabels(v) == SelectSeq(Headings(v), LAMBDA h : HeadingInFront(h.at.z))

(***************************************************************************)
(* The passes of a drawn frame in the order onDraw goes through them, each *)
(* with the GL state onDraw's own calls have set by then: lines 184-463.   *)
(***************************************************************************)
Pass(name, g) == <<[pass |-> name, gl |-> g]>>

FramePassesHandOffLate(v) ==
    Pass("skybox", GLSkybox(gl))
    \o Pass("spawn", GLScene(gl))
    \o Pass("render3D", GLScene(gl))
    \o Pass("view hand-off", GLScene(gl))
    \o Pass("particles", GLScene(gl))
    \o (IF DustRuns(v) THEN Pass("dust", GLScene(gl)) ELSE <<>>)
    \o (IF ReticleDrawn THEN Pass("reticle", GLReticle(gl)) ELSE <<>>)
    \o Pass("reset", GLReset(gl, ReticleDrawn))
    \o (IF show_callsigns[v] THEN Pass("callsigns", GLHud(gl, ReticleDrawn)) ELSE <<>>)
    \o (IF show_headings[v] /\ my_spaceship.exists
        THEN Pass("headings", GLHud(gl, ReticleDrawn)) ELSE <<>>)
    \o Pass("viewport restore", GLEnd(gl, ReticleDrawn))
FramePasses(v) ==
    Pass("skybox", GLSkybox(gl))
    \o Pass("spawn", GLScene(gl))
    \o Pass("view hand-off", GLScene(gl))
    \o Pass("render3D", GLScene(gl))
    \o Pass("particles", GLScene(gl))
    \o (IF DustRuns(v) THEN Pass("dust", GLScene(gl)) ELSE <<>>)
    \o (IF ReticleDrawn THEN Pass("reticle", GLReticle(gl)) ELSE <<>>)
    \o Pass("reset", GLReset(gl, ReticleDrawn))
    \o (IF show_callsigns[v] THEN Pass("callsigns", GLHud(gl, ReticleDrawn)) ELSE <<>>)
    \o (IF show_headings[v] /\ my_spaceship.exists
        THEN Pass("headings", GLHud(gl, ReticleDrawn)) ELSE <<>>)
    \o Pass("viewport restore", GLEnd(gl, ReticleDrawn))

(***************************************************************************)
(* What one onDraw call did, as a mock of its collaborators records it.    *)
(***************************************************************************)
NoSpawns == [e \in Entities |-> 0]

NoFrame ==
    [vp |-> 0, skipped |-> FALSE, skybox_name |-> <<>>, local_skybox_name |-> <<>>,
     local_skybox_factor |-> 0, zone |-> 0, textures_created |-> <<>>,
     spawned |-> NoSpawns, stamped |-> {}, emitted_again |-> {},
     dust_ran |-> FALSE,
     dust_center |-> <<0, 0, 0>>, dust_vector |-> NoVelocity,
     respawned |-> {}, buffer_writes |-> 0, upload |-> NoUpload,
     passes |-> <<>>, reticle |-> NoReticle, callsign_labels |-> <<>>,
     headings |-> <<>>, heading_labels |-> <<>>]

SkippedFrame(v) == [NoFrame EXCEPT !.vp = v, !.skipped = TRUE]

DrawnFrame(v) ==
    LET sky == LocalSkybox(v)
        center == DustCenter(v)
    IN  [vp |-> v, skipped |-> FALSE,
         skybox_name |-> SkyboxName,
         local_skybox_name |-> sky.name,
         local_skybox_factor |-> sky.factor,
         zone |-> sky.zone,
         textures_created |-> TexturesCreated(skybox_textures, SkyboxName, sky.name),
         spawned |-> Spawned,
         stamped |-> {e \in Entities : Emits(emitter[e])},
         emitted_again |-> {e \in Entities : Emits(emitter[e]) /\ HasEmitted(emitter[e])},
         dust_ran |-> DustRuns(v),
         dust_center |-> IF DustRuns(v) THEN center ELSE <<0, 0, 0>>,
         dust_vector |-> IF DustRuns(v) THEN DustVector ELSE NoVelocity,
         respawned |-> IF DustRuns(v) THEN Respawned(space_dust, center) ELSE {},
         buffer_writes |-> IF DustRuns(v) /\ UpdateRequired(space_dust, center)
                           THEN 1 ELSE 0,
         upload |-> IF DustRuns(v) /\ UpdateRequired(space_dust, center)
                    THEN Upload(space_dust) ELSE NoUpload,
         passes |-> FramePasses(v),
         reticle |-> Reticle,
         callsign_labels |-> CallsignLabels(v),
         headings |-> Headings(v),
         heading_labels |-> HeadingLabels(v)]

(***************************************************************************)
(* GuiViewport3D::onDraw: lines 134-464.                                   *)
(***************************************************************************)
ZeroWidthNever(v) == FALSE
ZeroWidth(v) == rect[v].w = 0

\* What the call does once it is past the guard, with rnd the values random()
\* returns: the matrices (173-182), the skybox pass (184-258), the engine
\* particle pass (261-278), the space dust pass (288-338), the targeting
\* reticle (340-376), the HUD text (428-461) and the GL state the call ends in
\* (378-463).
onDrawFrame(v, rnd) ==
    LET f == DrawnFrame(v)
    IN  /\ frame' = f
        /\ projection_matrix' =
              [projection_matrix EXCEPT ![v] = Perspective(CameraFov, rect[v])]
        /\ view_matrix' =
              [view_matrix EXCEPT
                 ![v] = ViewMatrix(camera_yaw[v], camera_pitch[v], camera_position[v])]
        /\ skybox_textures' = skybox_textures \cup {f.skybox_name, f.local_skybox_name}
        /\ texture_creations' =
              [n \in DOMAIN texture_creations |->
                  texture_creations[n] + CountIn(f.textures_created, n)]
        /\ emitter' = [e \in Entities |-> EmitterAfter(emitter[e])]
        /\ IF DustRuns(v)
           THEN /\ space_dust' = SpaceDustAfter(space_dust, DustCenter(v), rnd)
                /\ IF UpdateRequired(space_dust, DustCenter(v))
                   THEN LET buffer == Buffer(spacedust_buffer[v], spacedust_signs[v])
                            after == Uploaded(buffer, space_dust')
                        IN  /\ spacedust_buffer' =
                                  [spacedust_buffer EXCEPT ![v] = PositionsOf(after)]
                            /\ spacedust_signs' =
                                  [spacedust_signs EXCEPT ![v] = SignsOf(after)]
                   ELSE UNCHANGED <<spacedust_buffer, spacedust_signs>>
           ELSE UNCHANGED <<space_dust, spacedust_buffer, spacedust_signs>>
        /\ gl' = GLEnd(gl, ReticleDrawn)
        /\ UNCHANGED <<rect, camera_position, show_spacedust, default_skybox, zones,
                       elapsed, my_spaceship,
                       camera_yaw, camera_pitch, show_callsigns, show_headings, callsigns, screen>>

\* rnd[k]: the vector the three random() calls give if pair k is respawned.
onDraw(v, rnd) ==
    IF ZeroWidth(v)
    THEN /\ frame' = SkippedFrame(v)
         /\ UNCHANGED <<rect, camera_position, show_spacedust, view_matrix,
                        projection_matrix, gl, skybox_textures, texture_creations,
                        default_skybox, zones, emitter, elapsed, my_spaceship,
                        space_dust, spacedust_buffer, spacedust_signs,
                        camera_yaw, camera_pitch, show_callsigns, show_headings, callsigns, screen>>
    ELSE onDrawFrame(v, rnd)

(***************************************************************************)
(* The constructor: lines 35-132.  It zeroes the position range of the     *)
(* instance's buffer; the static array starts as 2 * N zero vectors.       *)
(***************************************************************************)
ZeroedPositions == [i \in DustIndices |-> <<0, 0, 0>>]

\* line 113: glBufferData with nullptr reserves the bytes and leaves them
\* unspecified, which here is whatever the words are said to hold
Reserved(words) == [w \in BufferWords |-> words]

\* lines 125 and 129: the signs, then the zeroed positions
Constructed(words) ==
    glBufferSubData(
        glBufferSubData(Reserved(words), SignOffset, Len(Signs) * SizeofFloat, Signs),
        0, 2 * NumParticles * SizeofVec3, FloatsOf(ZeroedPositions))

(***************************************************************************)
(* The rest of the program, as far as onDraw reads what it writes: the GUI *)
(* layout resizes the element, the camera and the ship move, the scenario  *)
(* sets the default skybox and the impulse, the engine's clock advances.   *)
(***************************************************************************)
Resize(v, size) ==
    /\ rect[v] # size
    /\ rect' = [rect EXCEPT ![v] = size]
    /\ UNCHANGED <<camera_position, show_spacedust, view_matrix, projection_matrix,
                   gl, skybox_textures, texture_creations, default_skybox, zones,
                   emitter, elapsed, my_spaceship, space_dust, spacedust_buffer, spacedust_signs, frame,
                   camera_yaw, camera_pitch, show_callsigns, show_headings, callsigns, screen>>

MoveCamera(v, p) ==
    /\ camera_position[v] # p
    /\ camera_position' = [camera_position EXCEPT ![v] = p]
    /\ UNCHANGED <<rect, show_spacedust, view_matrix, projection_matrix,
                   gl, skybox_textures, texture_creations, default_skybox, zones,
                   emitter, elapsed, my_spaceship, space_dust, spacedust_buffer, spacedust_signs, frame,
                   camera_yaw, camera_pitch, show_callsigns, show_headings, callsigns, screen>>

SetDefaultSkybox(id) ==
    /\ default_skybox # id
    /\ default_skybox' = id
    /\ UNCHANGED <<rect, camera_position, show_spacedust, view_matrix, projection_matrix,
                   gl, skybox_textures, texture_creations, zones,
                   emitter, elapsed, my_spaceship, space_dust, spacedust_buffer, spacedust_signs, frame,
                   camera_yaw, camera_pitch, show_callsigns, show_headings, callsigns, screen>>

SetImpulse(e, a) ==
    /\ emitter[e].actual # a
    /\ emitter' = [emitter EXCEPT ![e].actual = a]
    /\ UNCHANGED <<rect, camera_position, show_spacedust, view_matrix, projection_matrix,
                   gl, skybox_textures, texture_creations, default_skybox, zones,
                   elapsed, my_spaceship, space_dust, spacedust_buffer, spacedust_signs, frame,
                   camera_yaw, camera_pitch, show_callsigns, show_headings, callsigns, screen>>

Tick ==
    /\ elapsed + TimeStep <= MaxTime
    /\ elapsed' = elapsed + TimeStep
    /\ UNCHANGED <<rect, camera_position, show_spacedust, view_matrix, projection_matrix,
                   gl, skybox_textures, texture_creations, default_skybox, zones,
                   emitter, my_spaceship, space_dust, spacedust_buffer, spacedust_signs, frame,
                   camera_yaw, camera_pitch, show_callsigns, show_headings, callsigns, screen>>

SetShip(ship) ==
    /\ my_spaceship # ship
    /\ my_spaceship' = ship
    /\ UNCHANGED <<rect, camera_position, show_spacedust, view_matrix, projection_matrix,
                   gl, skybox_textures, texture_creations, default_skybox, zones,
                   emitter, elapsed, space_dust, spacedust_buffer, spacedust_signs, frame,
                   camera_yaw, camera_pitch, show_callsigns, show_headings, callsigns, screen>>

showSpaceDust(v, on) ==
    /\ show_spacedust[v] # on
    /\ show_spacedust' = [show_spacedust EXCEPT ![v] = on]
    /\ UNCHANGED <<rect, camera_position, view_matrix, projection_matrix,
                   gl, skybox_textures, texture_creations, default_skybox, zones,
                   emitter, elapsed, my_spaceship, space_dust, spacedust_buffer, spacedust_signs, frame,
                   camera_yaw, camera_pitch, show_callsigns, show_headings, callsigns, screen>>

\* A call of worldToScreen from outside onDraw (lines 466-487): it reads the
\* matrices the last drawn frame stored and the rectangle as it is now.
WorldToScreenCaching(v, world) ==
    /\ screen' = [called |-> TRUE, vp |-> v, world |-> world,
                  view |-> view_matrix[v], projection |-> Perspective(CameraFov, rect[v]),
                  rect |-> rect[v],
                  result |-> worldToScreen(view_matrix[v], Perspective(CameraFov, rect[v]),
                                           rect[v], world)]
    /\ projection_matrix' = [projection_matrix EXCEPT ![v] = Perspective(CameraFov, rect[v])]
    /\ UNCHANGED <<rect, camera_position, camera_yaw, camera_pitch, show_callsigns,
                   show_headings, show_spacedust, view_matrix, gl,
                   skybox_textures, texture_creations, default_skybox, zones, emitter,
                   elapsed, my_spaceship, callsigns, space_dust, spacedust_buffer, spacedust_signs, frame>>
WorldToScreenCall(v, world) ==
    /\ screen' = [called |-> TRUE, vp |-> v, world |-> world,
                  view |-> view_matrix[v], projection |-> projection_matrix[v],
                  rect |-> rect[v],
                  result |-> worldToScreen(view_matrix[v], projection_matrix[v],
                                           rect[v], world)]
    /\ UNCHANGED <<rect, camera_position, camera_yaw, camera_pitch, show_callsigns,
                   show_headings, show_spacedust, view_matrix, projection_matrix, gl,
                   skybox_textures, texture_creations, default_skybox, zones, emitter,
                   elapsed, my_spaceship, callsigns, space_dust, spacedust_buffer, spacedust_signs, frame>>

TurnCamera(v, yaw) ==
    /\ camera_yaw[v] # yaw
    /\ camera_yaw' = [camera_yaw EXCEPT ![v] = yaw]
    /\ UNCHANGED <<rect, camera_position, camera_pitch, show_callsigns, show_headings,
                   show_spacedust, view_matrix, projection_matrix, gl, skybox_textures,
                   texture_creations, default_skybox, zones, emitter, elapsed,
                   my_spaceship, callsigns, space_dust, spacedust_buffer, spacedust_signs, frame, screen>>

showCallsigns(v, on) ==
    /\ show_callsigns[v] # on
    /\ show_callsigns' = [show_callsigns EXCEPT ![v] = on]
    /\ UNCHANGED <<rect, camera_position, camera_yaw, camera_pitch, show_headings,
                   show_spacedust, view_matrix, projection_matrix, gl, skybox_textures,
                   texture_creations, default_skybox, zones, emitter, elapsed,
                   my_spaceship, callsigns, space_dust, spacedust_buffer, spacedust_signs, frame, screen>>

showHeadings(v, on) ==
    /\ show_headings[v] # on
    /\ show_headings' = [show_headings EXCEPT ![v] = on]
    /\ UNCHANGED <<rect, camera_position, camera_yaw, camera_pitch, show_callsigns,
                   show_spacedust, view_matrix, projection_matrix, gl, skybox_textures,
                   texture_creations, default_skybox, zones, emitter, elapsed,
                   my_spaceship, callsigns, space_dust, spacedust_buffer, spacedust_signs, frame, screen>>

(***************************************************************************)
(* Inputs.                                                                 *)
(***************************************************************************)
FullSize == [x |-> 0, y |-> 0, w |-> 800, h |-> 600]
HiddenSize == [x |-> 0, y |-> 0, w |-> 0, h |-> 600]
RectSizes == {FullSize, HiddenSize}
FlatSize == [x |-> 0, y |-> 0, w |-> 800, h |-> 0]
WideSize == [x |-> 100, y |-> 50, w |-> 1000, h |-> 500]

\* what the matrix members can hold before the first frame assigns them
UninitViews ==
    {[assigned |-> FALSE, yaw |-> 0, pitch |-> 0, translation |-> <<0, 0, 0>>],
     [assigned |-> FALSE, yaw |-> 90, pitch |-> 0, translation |-> <<-1, 0, 0>>]}
UninitProjections ==
    {[assigned |-> FALSE, fov |-> 90, aspect |-> <<1, 1>>, near |-> 1, far |-> 25000],
     [assigned |-> FALSE, fov |-> 120, aspect |-> <<2, 1>>, near |-> 1, far |-> 25000]}

CameraOrigin == <<0, 0, 0>>
WorldPoints == {<<0, 1000, 0>>, <<1000, 0, 0>>, <<1000, 500, -200>>}

Square == <<<<-3, -3>>, <<3, -3>>, <<3, 3>>, <<-3, 3>>>>
Triangle == <<<<0, 0>>, <<4, 0>>, <<0, 4>>>>

\* a triangle, not point-symmetric about its position, without fade distance
ZoneNebula == [position |-> <<1, 0>>, outline |-> Triangle,
               skybox |-> "nebula", skybox_fade_distance |-> 0]
\* a square that fades over a distance of 2
ZoneRed == [position |-> <<2, 1>>, outline |-> Square,
            skybox |-> "red", skybox_fade_distance |-> 2]
\* a zone without skybox
ZoneSilent == [position |-> <<2, 1>>, outline |-> Square,
               skybox |-> EmptySkybox, skybox_fade_distance |-> 2]
\* a zone naming the default skybox, with a negative fade distance
ZoneNegative == [position |-> <<2, 1>>, outline |-> Square,
                 skybox |-> "default", skybox_fade_distance |-> -2]

ZoneSet == {ZoneNebula, ZoneRed, ZoneSilent, ZoneNegative}
ZoneLists == UNION {[1..n -> ZoneSet] : n \in 0..MaxZones}

CameraInTriangle == <<2, 1, 0>>     \* inside ZoneNebula's outline, the squares' centre
CameraMirrored == <<0, -1, 0>>      \* its mirror image about ZoneNebula's position,
                                    \* inside the squares, 1 from their edge
CameraFar == <<9, 9, 0>>            \* outside every outline
SkyCameras == {CameraInTriangle, CameraMirrored, CameraFar}

SkyboxIds == {"default", "nebula", "red"}
SkyboxNames == {SkyboxPath(id) : id \in SkyboxIds}

Ship(transform, physics) ==
    [exists |-> TRUE, id |-> 1, transform |-> transform, physics |-> physics,
     target |-> NoComponent]
ShipAtOrigin == Ship(<<0, 0>>, <<200, 0>>)
ShipAway == Ship(<<1000, 0>>, NoComponent)
ShipNowhere == Ship(NoComponent, NoComponent)

\* what a Target component can point at: an entity with transform and physics,
\* one with neither, and no entity
NoEntity == [exists |-> FALSE]
TargetAhead == [exists |-> TRUE, id |-> 2, transform |-> <<2000, 0>>, size |-> <<100, 100>>]
TargetBare == [exists |-> TRUE, id |-> 3, transform |-> NoComponent, size |-> NoComponent]
Locked(ship, entity) == [ship EXCEPT !.target = [entity |-> entity]]

\* entities with CallSign and Transform: the player ship, one ahead of a camera
\* that looks along +x from CameraBehind, one in the camera's plane, one 10000
\* ahead, one farther, one behind
Named(id, transform, size) == [id |-> id, transform |-> transform, size |-> size]
CameraBehind == <<-1000, 0, 0>>
NamedPlayer == Named(1, <<0, 0>>, NoComponent)
NamedAhead == Named(2, <<2000, 0>>, <<100, 100>>)
NamedBeside == Named(3, <<-1000, 700>>, NoComponent)
NamedAtLimit == Named(4, <<9000, 0>>, NoComponent)
NamedBeyond == Named(5, <<9001, 0>>, NoComponent)
NamedBehind == Named(6, <<-1001, 0>>, <<100, 100>>)
AllNamed == <<NamedPlayer, NamedAhead, NamedBeside, NamedAtLimit, NamedBeyond, NamedBehind>>

\* a camera that has the heading 210 of a ship at the origin in its plane
CameraAtRing == <<-1250, 0, 0>>
HudCameras == {CameraBehind, CameraAtRing}
\* a ship whose headings all lie more than 10000 ahead of the camera
ShipAhead == Ship(<<13000, 0>>, NoComponent)
Yaws == {0, 180}
Ships == {NoShip, ShipAtOrigin, ShipAway, ShipNowhere}

\* random(-maxDustDist, maxDustDist) three times: a vector nearer than the
\* shell, one in the shell, one beyond it (a corner of the cube)
RandomNear == <<50, 0, -50>>
RandomInShell == <<300, 0, 0>>
RandomBeyond == <<500, -500, 500>>
RandomVecs == {RandomNear, RandomInShell, RandomBeyond}

Throttles == {-50, 0, 100}          \* impulse.actual, in 1/100
Emitter(actual, count) ==
    [actual |-> actual, last_engine_particle_time |-> 0, emitters |-> count]

(***************************************************************************)
(* The state after construction of the viewports.                          *)
(***************************************************************************)
InitCommon ==
    /\ gl = GLDefault
    /\ skybox_textures = {}
    /\ texture_creations = [n \in SkyboxNames |-> 0]
    /\ space_dust = ZeroedPositions
    /\ spacedust_buffer = [v \in Viewports |-> PositionsOf(Constructed(NoFloat))]
    /\ spacedust_signs = [v \in Viewports |-> SignsOf(Constructed(NoFloat))]
    /\ frame = NoFrame
    /\ screen = NoScreen

\* The camera looks along +x from where it is; no callsign and no heading is
\* shown (lines 38-39) and no entity carries a callsign; nothing reads the
\* matrices before a frame has assigned them.
InitHudOff ==
    /\ view_matrix = [v \in Viewports |-> NoMatrix]
    /\ projection_matrix = [v \in Viewports |-> NoMatrix]
    /\ camera_yaw = [v \in Viewports |-> 0]
    /\ camera_pitch = [v \in Viewports |-> 0]
    /\ show_callsigns = [v \in Viewports |-> FALSE]
    /\ show_headings = [v \in Viewports |-> FALSE]
    /\ callsigns = <<>>

(***************************************************************************)
(* Spec: whole frames.  Every pass has something to do: a zone holds the   *)
(* camera, an engine runs, the ship flies with space dust shown; the       *)
(* layout resizes the viewports, down to width 0 and back.                 *)
(***************************************************************************)
Init ==
    /\ InitCommon
    /\ InitHudOff
    /\ rect \in [Viewports -> RectSizes]
    /\ camera_position = [v \in Viewports |-> CameraMirrored]
    /\ show_spacedust = [v \in Viewports |-> TRUE]
    /\ default_skybox = "default"
    /\ zones = <<ZoneNebula>>
    /\ emitter = [e \in Entities |-> Emitter(IF e = 1 THEN 100 ELSE 0, e)]
    /\ elapsed \in {0, 2 * EmitInterval}
    /\ my_spaceship = ShipAtOrigin

Next ==
    \/ \E v \in Viewports : onDraw(v, [k \in Pairs |-> RandomInShell])
    \/ \E v \in Viewports, size \in RectSizes : Resize(v, size)
    \/ \E ship \in {ShipAtOrigin, ShipAway} : SetShip(ship)

Spec == Init /\ [][Next]_vars

(***************************************************************************)
(* The step is a call of v's onDraw.  The values random() returned in it   *)
(* are read back from the array the step leaves: a respawned pair lies at  *)
(* the dust-center plus its random vector, and the call does not depend on *)
(* the vectors of the pairs it does not respawn.  What no onDraw call      *)
(* changes is looked at first.                                             *)
(***************************************************************************)
DrawnBy(v) ==
    /\ frame'.vp = v
    /\ UNCHANGED <<rect, camera_position, camera_yaw, camera_pitch, show_callsigns,
                   show_headings, show_spacedust, default_skybox, zones, elapsed,
                   my_spaceship, callsigns, screen>>
    /\ \A e \in Entities : emitter'[e].actual = emitter[e].actual
    /\ onDraw(v, [k \in Pairs |-> Vec3Sub(space_dust'[First(k)], DustCenter(v))])

(***************************************************************************)
(* C1: an onDraw call made while the element's rectangle has width 0 skips *)
(* the whole frame: it leaves the GL state, the skybox texture cache, the  *)
(* emitters' timestamps, the dust array, the dust buffers and the stored   *)
(* view and projection matrices as they were, and it spawns no particle,   *)
(* creates no texture and writes no dust buffer.                           *)
(***************************************************************************)
C1_ZeroWidthSkipsFrame ==
    [][\A v \in Viewports :
          (rect[v].w = 0 /\ DrawnBy(v))
          => /\ UNCHANGED <<gl, skybox_textures, texture_creations, emitter,
                            space_dust, spacedust_buffer, view_matrix,
                            projection_matrix>>
             /\ frame'.vp = v
             /\ frame'.textures_created = <<>>
             /\ frame'.spawned = NoSpawns
             /\ frame'.stamped = {}
             /\ frame'.respawned = {}
             /\ frame'.buffer_writes = 0]_vars

\* A frame was skipped in a state where a drawn frame would have created a
\* texture, spawned particles, respawned and uploaded dust and changed the GL
\* state and both matrices.
C1_Witness ==
    /\ frame.skipped
    /\ rect[frame.vp].w = 0
    /\ DrawnFrame(frame.vp).textures_created # <<>>
    /\ DrawnFrame(frame.vp).spawned # NoSpawns
    /\ DrawnFrame(frame.vp).buffer_writes = 1
    /\ gl # GLAfterFrame
    /\ view_matrix[frame.vp] # ViewMatrix(camera_yaw[frame.vp], camera_pitch[frame.vp],
                                           camera_position[frame.vp])
    /\ projection_matrix[frame.vp] # Perspective(CameraFov, FullSize)

(***************************************************************************)
(* SpecSkybox: the skybox pass over every list of up to MaxZones zones,    *)
(* every camera position and every default skybox; the other passes have   *)
(* nothing to do (no engine runs, no ship).                                *)
(***************************************************************************)
DefaultSkyboxes == {NoInfo, "nebula"}

InitSkybox ==
    /\ InitCommon
    /\ InitHudOff
    /\ rect = [v \in Viewports |-> FullSize]
    /\ camera_position \in [Viewports -> SkyCameras]
    /\ \A v \in Viewports : v > 2 => camera_position[v] = CameraFar
    /\ show_spacedust = [v \in Viewports |-> FALSE]
    /\ default_skybox \in DefaultSkyboxes
    /\ zones \in ZoneLists
    /\ emitter = [e \in Entities |-> Emitter(0, e)]
    /\ elapsed = 0
    /\ my_spaceship = NoShip

NextSkybox ==
    \/ \E v \in Viewports : onDraw(v, [k \in Pairs |-> RandomInShell])
    \/ \E id \in DefaultSkyboxes : SetDefaultSkybox(id)

SpecSkybox == InitSkybox /\ [][NextSkybox]_vars

(***************************************************************************)
(* What the claims about the skybox pass speak of.  In SpecSkybox the      *)
(* zones and the cameras stay as they were when the frame was drawn.       *)
(***************************************************************************)
Drawn == frame.vp \in Viewports /\ ~frame.skipped
FrameCamera == camera_position[frame.vp]

\* the camera's ground-plane position relative to the zone's position
CameraRelative(zone, camera) == Vec2Sub(<<camera[1], camera[2]>>, zone.position)

\* the zone's outline, placed at the zone's position, contains the camera
ZoneContains(zone, camera) == insidePolygon(zone.outline, CameraRelative(zone, camera))

\* the zones with a skybox that contain the frame's camera
ContainingZones ==
    {i \in 1..Len(zones) :
        zones[i].skybox # EmptySkybox /\ ZoneContains(zones[i], FrameCamera)}

FirstOf(S) == CHOOSE i \in S : \A j \in S : i <= j

\* floor(FactorScale * d / fade) for a fade distance of either sign
SignedRatio(d2, fade) ==
    IF fade > 0 THEN ScaledRatio(d2, fade, RatioLimit)
    ELSE 0 - ScaledRatio(d2, 0 - fade, RatioLimit)

(***************************************************************************)
(* C2: in a drawn frame, if no zone with a non-empty skybox id contains    *)
(* the camera position, the local skybox name is the global skybox name    *)
(* and the blend factor uploaded is 0.                                     *)
(***************************************************************************)
C2_NoZoneMeansGlobalSkybox ==
    (Drawn /\ ContainingZones = {})
    => /\ frame.local_skybox_name = frame.skybox_name
       /\ frame.local_skybox_factor = 0

C4_FirstContainingZoneWins ==
    (Drawn /\ ContainingZones # {})
    => LET zone == zones[FirstOf(ContainingZones)]
       IN  /\ frame.zone = FirstOf(ContainingZones)
           /\ frame.local_skybox_name = SkyboxPath(zone.skybox)
           /\ frame.local_skybox_factor =
                 LocalSkyboxFactor(zone, CameraRelative(zone, FrameCamera))

(***************************************************************************)
(* C5: a zone with a non-empty skybox id that no earlier zone keeps from   *)
(* being tested is selected exactly when its outline contains the camera's *)
(* ground-plane position, taken relative to the zone's position.           *)
(***************************************************************************)
C5_SelectedIffContainsCamera ==
    Drawn =>
       \A i \in 1..Len(zones) :
          (/\ zones[i].skybox # EmptySkybox
           /\ \A j \in 1..(i - 1) : zones[j].skybox = EmptySkybox)
          => (frame.zone = i <=> ZoneContains(zones[i], FrameCamera))

(***************************************************************************)
(* C6: over any sequence of frames drawn by any of the viewports, a        *)
(* cubemap texture is constructed at most once per skybox name: the cache  *)
(* holds exactly the names constructed once, it holds the global and the   *)
(* local name of every drawn frame, a frame constructs each name it lacks  *)
(* once (one texture, not two, when the local name is the global name),    *)
(* and a name once cached is neither removed nor constructed again.        *)
(***************************************************************************)
C6_CacheState ==
    /\ \A n \in SkyboxNames :
          texture_creations[n] = IF n \in skybox_textures THEN 1 ELSE 0
    /\ Drawn => {frame.skybox_name, frame.local_skybox_name} \subseteq skybox_textures

C6_OneTexturePerName ==
    [][/\ C6_CacheState'
       /\ skybox_textures \subseteq skybox_textures'
       /\ \A n \in skybox_textures : texture_creations'[n] = texture_creations[n]
       /\ (frame' # frame /\ Drawn') =>
             /\ Len(frame'.textures_created) =
                   Cardinality({frame'.skybox_name, frame'.local_skybox_name}
                               \ skybox_textures)
             /\ \A n \in SkyboxNames :
                   texture_creations'[n] - texture_creations[n]
                      = CountIn(frame'.textures_created, n)]_vars

\* A frame whose local name is its global name constructed that one texture,
\* while the cache already held another name from an earlier frame.
C6_Witness ==
    /\ Drawn
    /\ frame.local_skybox_name = frame.skybox_name
    /\ frame.textures_created = <<frame.skybox_name>>
    /\ Cardinality(skybox_textures) >= 2

(***************************************************************************)
(* SpecDust: the space dust pass, for every outcome of random() among      *)
(* RandomVecs, with the ship absent, at the origin, away from it or        *)
(* without transform.  One viewport shows space dust, on and off; the      *)
(* others draw without it.                                                 *)
(***************************************************************************)
DustViewport == CHOOSE v \in Viewports : \A u \in Viewports : v <= u
DustShips == Ships

InitDust ==
    /\ InitCommon
    /\ InitHudOff
    /\ rect = [v \in Viewports |-> FullSize]
    /\ camera_position = [v \in Viewports |-> CameraFar]
    /\ show_spacedust \in {[v \in Viewports |-> v = DustViewport /\ on] : on \in BOOLEAN}
    /\ default_skybox = NoInfo
    /\ zones = <<>>
    /\ emitter = [e \in Entities |-> Emitter(0, e)]
    /\ elapsed = 0
    /\ my_spaceship \in DustShips

\* the pairs for which a frame of v calls random(): line 309
RandomCalls(v) ==
    IF DustRuns(v) /\ ~ZeroWidth(v) THEN Respawned(space_dust, DustCenter(v)) ELSE {}

\* random() is called in the frames of the viewport that shows space dust
NextDust ==
    \/ \E drawn \in [RandomCalls(DustViewport) -> RandomVecs] :
          onDraw(DustViewport,
                 [k \in Pairs |-> IF k \in DOMAIN drawn THEN drawn[k] ELSE RandomInShell])
    \/ \E v \in Viewports \ {DustViewport} : onDraw(v, [k \in Pairs |-> RandomInShell])
    \/ \E ship \in DustShips : SetShip(ship)
    \/ \E on \in BOOLEAN : showSpaceDust(DustViewport, on)

SpecDust == InitDust /\ [][NextDust]_vars

(***************************************************************************)
(* What the claims about the space dust pass speak of.                     *)
(***************************************************************************)
DustPassRan == Drawn /\ frame.dust_ran

WithinShell(p, center) ==
    /\ Length2(Vec3Sub(p, center)) >= MinDustDist * MinDustDist
    /\ Length2(Vec3Sub(p, center)) <= MaxDustDist * MaxDustDist

WithinCube(p, center) ==
    \A axis \in 1..3 :
       /\ p[axis] - center[axis] >= 0 - MaxDustDist
       /\ p[axis] - center[axis] <= MaxDustDist

(***************************************************************************)
(* C7 as claimed: after every space dust pass each dust particle's         *)
(* distance from the dust-center of that pass lies within [100, 500].      *)
(***************************************************************************)
C7_Original ==
    DustPassRan => \A i \in DustIndices : WithinShell(space_dust[i], frame.dust_center)

(***************************************************************************)
(* C7 as amended: after every space dust pass each particle the pass did   *)
(* not respawn lies within [100, 500] of the dust-center, and each         *)
(* particle it respawned lies within 500 of the dust-center along every    *)
(* axis, where it may be outside the shell.                                *)
(***************************************************************************)
C7_ShellOrRespawnCube ==
    DustPassRan =>
       \A k \in Pairs :
          IF k \in frame.respawned
          THEN WithinCube(space_dust[First(k)], frame.dust_center)
          ELSE WithinShell(space_dust[First(k)], frame.dust_center)

\* A pass away from the origin left one pair where it was, in the shell, and
\* respawned another to a place outside the shell.
C7_Witness ==
    /\ DustPassRan
    /\ frame.dust_center # <<0, 0, 0>>
    /\ \E k \in Pairs : k \notin frame.respawned
    /\ \E k \in frame.respawned : ~WithinShell(space_dust[First(k)], frame.dust_center)

(***************************************************************************)
(* C8: a frame writes the position range of the space dust buffer if and   *)
(* only if its dust pass respawned at least one particle, that is, found   *)
(* one outside the shell; a frame that respawns none (a skipped frame and  *)
(* a frame without dust pass among them) writes no dust buffer.            *)
(***************************************************************************)
C8_UploadIffRespawned ==
    [][\A v \in Viewports :
          DrawnBy(v)
          => LET found == IF frame'.dust_ran
                          THEN {k \in Pairs :
                                  ~WithinShell(space_dust[First(k)], frame'.dust_center)}
                          ELSE {}
             IN  /\ frame'.respawned = found
                 /\ frame'.buffer_writes = IF found # {} THEN 1 ELSE 0
                 /\ found = {} => UNCHANGED <<space_dust, spacedust_buffer>>
                 /\ found # {} => spacedust_buffer'[v] = space_dust']_vars

\* A dust pass found every particle in the shell and wrote nothing, the buffer
\* holding positions an earlier pass uploaded.
C8_Witness ==
    /\ DustPassRan
    /\ frame.respawned = {}
    /\ frame.buffer_writes = 0
    /\ spacedust_buffer[frame.vp] # ZeroedPositions

(***************************************************************************)
(* C9: in every reachable state the space dust array holds exactly         *)
(* 2 * spacedust_particle_count positions and the two endpoints of every   *)
(* pair are equal.                                                         *)
(***************************************************************************)
C9_PairsCoincide ==
    /\ DOMAIN space_dust = 1..(2 * NumParticles)
    /\ \A k \in Pairs : space_dust[2 * k - 1] = space_dust[2 * k]

\* A pass respawned one pair and not the other: the pairs differ.
C9_Witness ==
    /\ DustPassRan
    /\ frame.respawned # {}
    /\ frame.respawned # Pairs
    /\ \E k \in frame.respawned : space_dust[2 * k] # ZeroedPositions[2 * k]

(***************************************************************************)
(* SpecEngine: the engine particle pass, as the clock advances and the     *)
(* impulse of every entity changes between frames.                         *)
(***************************************************************************)
InitEngine ==
    /\ InitCommon
    /\ InitHudOff
    /\ rect = [v \in Viewports |-> FullSize]
    /\ camera_position = [v \in Viewports |-> CameraFar]
    /\ show_spacedust = [v \in Viewports |-> FALSE]
    /\ default_skybox = NoInfo
    /\ zones = <<>>
    /\ emitter = [e \in Entities |-> Emitter(0, e)]
    /\ elapsed = 0
    /\ my_spaceship = NoShip

\* the first entity flies ahead and astern, the others ahead only
ThrottlesOf(e) == IF e = 1 THEN Throttles ELSE {a \in Throttles : a >= 0}

NextEngine ==
    \/ \E v \in Viewports : onDraw(v, [k \in Pairs |-> RandomInShell])
    \/ \E e \in Entities : \E a \in ThrottlesOf(e) : SetImpulse(e, a)
    \/ Tick

SpecEngine == InitEngine /\ [][NextEngine]_vars

(***************************************************************************)
(* C10: for an entity whose impulse.actual is 0 during a frame, onDraw     *)
(* spawns no engine particle and leaves its last-emission timestamp as it  *)
(* was, whatever time has elapsed since its last emission.                 *)
(***************************************************************************)
C10_NoThrottleNoParticle ==
    [][\A v \in Viewports :
          DrawnBy(v)
          => \A e \in Entities :
                emitter[e].actual = 0
                => /\ frame'.spawned[e] = 0
                   /\ e \notin frame'.stamped
                   /\ emitter'[e] = emitter[e]]_vars

\* A frame spawned particles for a running engine and none for an entity at
\* impulse 0 whose last emission lies more than 0.1 s back.
C10_Witness ==
    /\ Drawn
    /\ \E e \in Entities :
          /\ emitter[e].actual = 0
          /\ elapsed - emitter[e].last_engine_particle_time > EmitInterval
          /\ frame.spawned[e] = 0
    /\ \E e \in Entities : frame.spawned[e] > 0 /\ emitter[e].last_engine_particle_time = elapsed

(***************************************************************************)
(* C11: for each entity, over any sequence of frames of any viewports      *)
(* (several of them drawing at the same elapsed time among them), an       *)
(* emission happens only when more than 0.1 s of elapsed time lie between  *)
(* it and the entity's previous emission: the timestamp is the time of the *)
(* last emission, only an emitting frame moves it, and a frame emits only  *)
(* when the elapsed time exceeds it by more than 0.1 s.                    *)
(***************************************************************************)
C11_EmissionsApart ==
    [][/\ \A v \in Viewports :
             DrawnBy(v)
             => \A e \in frame'.stamped :
                   /\ elapsed - emitter[e].last_engine_particle_time > EmitInterval
                   /\ emitter'[e].last_engine_particle_time = elapsed
       /\ \A e \in Entities :
             emitter'[e].last_engine_particle_time # emitter[e].last_engine_particle_time
             => /\ \E v \in Viewports : DrawnBy(v)
                /\ e \in frame'.stamped
                /\ emitter'[e].last_engine_particle_time = elapsed]_vars

\* An entity emitted for the second time, and a frame of another viewport at
\* the same elapsed time emitted nothing for it although its engine runs.
C11_Witness ==
    /\ Drawn
    /\ \E e \in Entities :
          /\ emitter[e].actual # 0
          /\ emitter[e].last_engine_particle_time = elapsed
          /\ emitter[e].last_engine_particle_time >= 2 * EmitInterval
          /\ e \notin frame.stamped
    /\ \E e \in Entities :
          /\ e \in frame.emitted_again
          /\ emitter[e].last_engine_particle_time = elapsed

(***************************************************************************)
(* SpecPasses: the passes of a frame and the GL state they run in.  One    *)
(* viewport has its space dust, callsigns and headings switched on and     *)
(* off; the player ship is absent, without transform, without target, or   *)
(* has locked a target with or without transform, or no entity.            *)
(***************************************************************************)
PassViewport == CHOOSE v \in Viewports : \A u \in Viewports : v <= u
PassShips == {NoShip, ShipNowhere, ShipAtOrigin, Locked(ShipAtOrigin, NoEntity),
              Locked(ShipAtOrigin, TargetAhead), Locked(ShipAtOrigin, TargetBare)}

InitPasses ==
    /\ InitCommon
    /\ view_matrix = [v \in Viewports |-> NoMatrix]
    /\ projection_matrix = [v \in Viewports |-> NoMatrix]
    /\ rect = [v \in Viewports |-> FullSize]
    /\ camera_position = [v \in Viewports |-> CameraBehind]
    /\ camera_yaw = [v \in Viewports |-> 0]
    /\ camera_pitch = [v \in Viewports |-> 0]
    /\ show_callsigns = [v \in Viewports |-> FALSE]
    /\ show_headings = [v \in Viewports |-> FALSE]
    /\ show_spacedust = [v \in Viewports |-> FALSE]
    /\ callsigns = <<NamedPlayer, NamedAhead>>
    /\ default_skybox = NoInfo
    /\ zones = <<>>
    /\ emitter = [e \in Entities |-> Emitter(0, e)]
    /\ elapsed = 0
    /\ my_spaceship \in PassShips

NextPasses ==
    \/ \E v \in Viewports : onDraw(v, [k \in Pairs |-> RandomInShell])
    \/ \E ship \in PassShips : SetShip(ship)
    \/ \E on \in BOOLEAN : showSpaceDust(PassViewport, on)
    \/ \E on \in BOOLEAN : showCallsigns(PassViewport, on)
    \/ \E on \in BOOLEAN : showHeadings(PassViewport, on)

SpecPasses == InitPasses /\ [][NextPasses]_vars

(***************************************************************************)
(* What the claims about the passes speak of.                              *)
(***************************************************************************)
PassOrder ==
    <<"skybox", "spawn", "view hand-off", "render3D", "particles", "dust", "reticle",
      "reset", "callsigns", "headings", "viewport restore">>
OptionalPasses == {"dust", "reticle", "callsigns", "headings"}

PlaceOf(name) == CHOOSE i \in 1..Len(PassOrder) : PassOrder[i] = name
PassNames == {frame.passes[i].pass : i \in 1..Len(frame.passes)}

(***************************************************************************)
(* C12: in every frame that is not skipped the passes happen in the order  *)
(* skybox, particle spawn, view-matrix hand-off, entity render, particle   *)
(* render, space dust, reticle, GL state reset, callsigns, headings,       *)
(* viewport restore; each optional pass is at its place or absent, every   *)
(* other pass is there, and no entity, particle, dust or reticle draw      *)
(* comes before the view-matrix hand-off.                                  *)
(***************************************************************************)
C12_PassOrder ==
    Drawn =>
       /\ \A i \in 1..Len(frame.passes) :
             \E p \in 1..Len(PassOrder) : frame.passes[i].pass = PassOrder[p]
       /\ \A i, j \in 1..Len(frame.passes) :
             i < j => PlaceOf(frame.passes[i].pass) < PlaceOf(frame.passes[j].pass)
       /\ \A p \in 1..Len(PassOrder) :
             PassOrder[p] \notin OptionalPasses => PassOrder[p] \in PassNames
       /\ \A i \in 1..Len(frame.passes) :
             frame.passes[i].pass \in {"render3D", "particles", "dust", "reticle"}
             => \E j \in 1..(i - 1) : frame.passes[j].pass = "view hand-off"

\* A frame went through every pass, the optional ones included.
C12_Witness ==
    /\ Drawn
    /\ Len(frame.passes) = Len(PassOrder)

(***************************************************************************)
(* C13: at the end of every frame that is not skipped, whichever of the    *)
(* optional passes ran, the depth mask is on, the depth test off, face     *)
(* culling off, blending on with source-alpha / one-minus-source-alpha and *)
(* the GL viewport is the full physical size of the render target; the     *)
(* HUD text is drawn in that depth, culling and blending state.            *)
(***************************************************************************)
HudState(g) ==
    /\ g.depth_mask
    /\ ~g.depth_test
    /\ ~g.cull_face
    /\ g.blend
    /\ g.blend_func = <<"SRC_ALPHA", "ONE_MINUS_SRC_ALPHA">>

C13_EndState ==
    Drawn =>
       /\ HudState(gl)
       /\ gl.viewport = "physical size"
       /\ frame.passes[Len(frame.passes)].gl = gl
       /\ \A i \in 1..Len(frame.passes) :
             frame.passes[i].pass \in {"callsigns", "headings"}
             => HudState(frame.passes[i].gl)

\* A frame drew callsigns and headings without a reticle pass before them, so
\* that only lines 423-426 switched the depth test off.
C13_Witness ==
    /\ Drawn
    /\ {"callsigns", "headings"} \subseteq PassNames
    /\ "reticle" \notin PassNames
    /\ HudState(gl)

(***************************************************************************)
(* C14: the targeting reticle is drawn in a frame only if the player ship  *)
(* has locked a target entity and that target has a transform; for a       *)
(* target entity without transform no reticle is drawn.                    *)
(***************************************************************************)
C14_ReticleNeedsTransform ==
    (Drawn /\ frame.reticle.drawn)
    => /\ frame.reticle.target.exists
       /\ frame.reticle.target.transform # NoComponent

(***************************************************************************)
(* SpecHud: the HUD text.  Entities with callsigns stand ahead of, beside, *)
(* behind, 10000 ahead of and farther ahead of a camera that looks along   *)
(* +x or -x; the player ship is absent, without transform, near or far     *)
(* ahead; one viewport has its callsigns and headings switched on and off. *)
(***************************************************************************)
HudViewport == CHOOSE v \in Viewports : \A u \in Viewports : v <= u
HudShips == {NoShip, ShipNowhere, ShipAtOrigin, ShipAhead}

InitHud ==
    /\ InitCommon
    /\ view_matrix = [v \in Viewports |-> NoMatrix]
    /\ projection_matrix = [v \in Viewports |-> NoMatrix]
    /\ rect = [v \in Viewports |-> FullSize]
    /\ camera_position \in [Viewports -> HudCameras]
    /\ camera_yaw = [v \in Viewports |-> 0]
    /\ camera_pitch = [v \in Viewports |-> 0]
    /\ show_callsigns = [v \in Viewports |-> FALSE]
    /\ show_headings = [v \in Viewports |-> FALSE]
    /\ show_spacedust = [v \in Viewports |-> FALSE]
    /\ callsigns \in {<<>>, AllNamed}
    /\ default_skybox = NoInfo
    /\ zones = <<>>
    /\ emitter = [e \in Entities |-> Emitter(0, e)]
    /\ elapsed = 0
    /\ my_spaceship \in HudShips

NextHud ==
    \/ \E v \in Viewports : onDraw(v, [k \in Pairs |-> RandomInShell])
    \/ \E ship \in HudShips : SetShip(ship)
    \/ \E yaw \in Yaws : TurnCamera(HudViewport, yaw)
    \/ \E on \in BOOLEAN : showCallsigns(HudViewport, on)
    \/ \E on \in BOOLEAN : showHeadings(HudViewport, on)

SpecHud == InitHud /\ [][NextHud]_vars

(***************************************************************************)
(* C15: a callsign label is drawn only when callsigns are enabled, the     *)
(* entity is not the player ship and the camera-space depth z of its point *)
(* satisfies 0 <= z <= 10000; every label drawn has alpha 128 * (1 -       *)
(* z/10000) and text size 20 * (1 - z/10000), so alpha 128 at depth 0 and  *)
(* alpha 0 at depth 10000; no label is drawn beyond 10000 or behind the    *)
(* camera.                                                                 *)
(***************************************************************************)
C15_CallsignFade ==
    [][\A v \in Viewports :
          DrawnBy(v)
          => \A i \in 1..Len(frame'.callsign_labels) :
                LET label == frame'.callsign_labels[i]
                    z == label.at.z
                IN  /\ show_callsigns[v]
                    /\ \E entity \in {callsigns[n] : n \in 1..Len(callsigns)} :
                          /\ entity.id = label.id
                          /\ ~(my_spaceship.exists /\ entity.id = my_spaceship.id)
                          /\ z = 0 - ViewApply(view_matrix'[v], CallsignPoint(entity))[3]
                    /\ 0 <= z
                    /\ z <= 10000
                    /\ label.alpha = (128 * (10000 - z)) \div 10000
                    /\ label.size = 20 * (10000 - z)
                    /\ z = 0 => label.alpha = 128
                    /\ z = 10000 => label.alpha = 0 /\ label.size = 0]_vars

\* A frame drew a label at depth 0 with alpha 128, one at depth 10000 with alpha
\* 0 and one in between, and left out the player ship, an entity behind the
\* camera and one beyond 10000.
C15_Witness ==
    /\ Drawn
    /\ Len(callsigns) = 6
    /\ Len(frame.callsign_labels) = 3
    /\ \E i \in 1..3 : frame.callsign_labels[i].at.z = 0
                       /\ frame.callsign_labels[i].alpha = 128
    /\ \E i \in 1..3 : frame.callsign_labels[i].at.z = 10000
                       /\ frame.callsign_labels[i].alpha = 0
    /\ \E i \in 1..3 : frame.callsign_labels[i].alpha \in 1..127

(***************************************************************************)
(* C20: when headings are enabled and the player ship has a transform,     *)
(* exactly the 12 headings 0, 30, ..., 330 are considered, each at 2500    *)
(* units from the ship, and a heading label is drawn if and only if its    *)
(* camera-space depth is strictly greater than 0, however far away; when   *)
(* headings are disabled or the player ship is absent or has no transform, *)
(* no heading label is drawn.                                              *)
(***************************************************************************)
Near2500(d) ==
    /\ d[1] * d[1] + d[2] * d[2] >= 2499 * 2499
    /\ d[1] * d[1] + d[2] * d[2] <= 2501 * 2501

C20_HeadingLabels ==
    [][\A v \in Viewports :
          DrawnBy(v)
          => LET considered == frame'.headings
                 labels == frame'.heading_labels
             IN  IF /\ show_headings[v]
                    /\ my_spaceship.exists
                    /\ my_spaceship.transform # NoComponent
                 THEN /\ Len(considered) = 12
                      /\ \A i \in 1..12 :
                            /\ considered[i].angle = 30 * (i - 1)
                            /\ considered[i].world[3] = 0
                            /\ Near2500(Vec2Sub(considered[i].world, my_spaceship.transform))
                            /\ considered[i].at.z =
                                  0 - ViewApply(view_matrix'[v], considered[i].world)[3]
                            /\ (considered[i].at.z > 0)
                                  <=> (\E n \in 1..Len(labels) : labels[n] = considered[i])
                      /\ \A n \in 1..Len(labels) :
                            \E i \in 1..12 : labels[n] = considered[i]
                      /\ \A n, m \in 1..Len(labels) :
                            n < m => labels[n].angle < labels[m].angle
                 ELSE labels = <<>>]_vars

\* A frame drew all 12 headings of a ship far ahead, each more than 10000 from
\* the camera, where a callsign is no longer drawn.
C20_Witness ==
    /\ Drawn
    /\ Len(frame.heading_labels) = 12
    /\ \A n \in 1..12 :
          /\ frame.heading_labels[n].angle = 30 * (n - 1)
          /\ frame.heading_labels[n].at.z > 10000

(***************************************************************************)
(* C19: in every frame that is not skipped the skybox cube is drawn while  *)
(* depth writes are disabled, and depth writes are enabled again before    *)
(* the engine-particle spawn, the entity render, the particle render, the  *)
(* dust pass and the reticle pass of that frame.                           *)
(***************************************************************************)
C19_SkyboxWithoutDepthWrites ==
    Drawn =>
       /\ \E i \in 1..Len(frame.passes) : frame.passes[i].pass = "skybox"
       /\ \A i \in 1..Len(frame.passes) :
             /\ frame.passes[i].pass = "skybox" => ~frame.passes[i].gl.depth_mask
             /\ frame.passes[i].pass \in {"spawn", "render3D", "particles", "dust", "reticle"}
                => /\ frame.passes[i].gl.depth_mask
                   /\ \E j \in 1..(i - 1) : frame.passes[j].pass = "skybox"

\* A frame with dust pass and reticle pass drew its skybox first, with depth
\* writes disabled, and both passes with depth writes enabled.
C19_Witness ==
    /\ Drawn
    /\ {"dust", "reticle"} \subseteq PassNames
    /\ ~frame.passes[1].gl.depth_mask
    /\ \A i \in 2..Len(frame.passes) : frame.passes[i].gl.depth_mask

(***************************************************************************)
(* SpecProjector: worldToScreen called from outside onDraw, between the    *)
(* frames, the resizes and the turns of the camera of one viewport, whose  *)
(* matrix members hold anything before its first frame.                    *)
(***************************************************************************)
ProjViewport == CHOOSE v \in Viewports : \A u \in Viewports : v <= u
ProjSizes == {FullSize, HiddenSize, WideSize}
ProjYaws == {0, 90}

InitProjector ==
    /\ InitCommon
    /\ \E view \in UninitViews, projection \in UninitProjections :
          /\ view_matrix = [v \in Viewports |-> IF v = ProjViewport THEN view ELSE NoMatrix]
          /\ projection_matrix =
                [v \in Viewports |-> IF v = ProjViewport THEN projection ELSE NoMatrix]
    /\ rect = [v \in Viewports |-> FullSize]
    /\ camera_position = [v \in Viewports |-> CameraOrigin]
    /\ camera_yaw = [v \in Viewports |-> 0]
    /\ camera_pitch = [v \in Viewports |-> 0]
    /\ show_callsigns = [v \in Viewports |-> FALSE]
    /\ show_headings = [v \in Viewports |-> FALSE]
    /\ show_spacedust = [v \in Viewports |-> FALSE]
    /\ callsigns = <<>>
    /\ default_skybox = NoInfo
    /\ zones = <<>>
    /\ emitter = [e \in Entities |-> Emitter(0, e)]
    /\ elapsed = 0
    /\ my_spaceship = NoShip

NextProjector ==
    \/ \E v \in Viewports : onDraw(v, [k \in Pairs |-> RandomInShell])
    \/ \E size \in ProjSizes : Resize(ProjViewport, size)
    \/ \E yaw \in ProjYaws : TurnCamera(ProjViewport, yaw)
    \/ \E world \in WorldPoints : WorldToScreenCall(ProjViewport, world)

SpecProjector == InitProjector /\ [][NextProjector]_vars

\* the call read the matrices of a frame drawn with the camera at the origin,
\* yaw 0, pitch 0, FOV 60, in a viewport of 800 x 600
EndToEndCall ==
    /\ screen.called
    /\ screen.view = ViewMatrix(0, 0, <<0, 0, 0>>)
    /\ screen.projection = Perspective(60, FullSize)
    /\ screen.rect = FullSize

(***************************************************************************)
(* C16 as claimed: with the camera at (0,0,0), yaw 0, pitch 0, FOV 60 and  *)
(* a viewport of 800 x 600, worldToScreen of the world point (0,1000,0)    *)
(* returns the centre of the viewport with strictly positive depth.        *)
(***************************************************************************)
C16_Original ==
    (EndToEndCall /\ screen.world = <<0, 1000, 0>>)
    => /\ screen.result.finite
       /\ screen.result.x = 400
       /\ screen.result.y = 300
       /\ screen.result.z > 0

(***************************************************************************)
(* C16 as amended: with the camera at (0,0,0), yaw 0, pitch 0, FOV 60 and  *)
(* a viewport of 800 x 600, worldToScreen of the world point (1000,0,0)    *)
(* returns the centre of the viewport with depth 1000: world +X is the     *)
(* camera's forward direction at yaw 0.  The world point (0,1000,0) lies   *)
(* in the camera's plane, at depth 0, where x and y are not finite.        *)
(***************************************************************************)
C16_ForwardIsX ==
    /\ (EndToEndCall /\ screen.world = <<1000, 0, 0>>)
       => /\ screen.result.finite
          /\ screen.result.x = 400
          /\ screen.result.y = 300
          /\ screen.result.z = 1000
    /\ (EndToEndCall /\ screen.world = <<0, 1000, 0>>)
       => /\ ~screen.result.finite
          /\ screen.result.z = 0

\* worldToScreen was called for (1000,0,0) after a frame with that camera.
C16_Witness ==
    /\ EndToEndCall
    /\ screen.world = <<1000, 0, 0>>
    /\ screen.result.finite
    /\ frame.vp = screen.vp
    /\ Drawn

(***************************************************************************)
(* C17: the projection worldToScreen uses is always the one derived from   *)
(* the current FOV and the current rectangle's aspect ratio: after a       *)
(* resize no projection computed for an earlier size of the rectangle is   *)
(* used by a later worldToScreen call, calls after a skipped zero-width    *)
(* frame included.                                                         *)
(***************************************************************************)
C17_ProjectionCurrent ==
    (screen.called /\ screen.projection.assigned)
    => screen.projection = Perspective(CameraFov, screen.rect)

(***************************************************************************)
(* C18: a call of worldToScreen leaves the view and projection matrices,   *)
(* the rectangle, the GL state, the skybox texture cache, the dust array   *)
(* and buffers and all entity components unchanged, and it returns what    *)
(* the previous call returned if that was given the same world point and   *)
(* neither a frame nor a resize has changed what the call reads since.     *)
(***************************************************************************)
C18_NoSideEffects ==
    [][\A world \in WorldPoints :
          WorldToScreenCall(ProjViewport, world)
          => /\ UNCHANGED <<rect, camera_position, camera_yaw, camera_pitch,
                            show_callsigns, show_headings, show_spacedust, view_matrix,
                            projection_matrix, gl, skybox_textures, texture_creations,
                            default_skybox, zones, emitter, elapsed, my_spaceship,
                            callsigns, space_dust, spacedust_buffer, spacedust_signs, frame>>
             /\ (/\ screen.called
                 /\ screen.vp = ProjViewport
                 /\ screen.world = world
                 /\ screen.view = view_matrix[ProjViewport]
                 /\ screen.projection = projection_matrix[ProjViewport]
                 /\ screen.rect = rect[ProjViewport])
                => screen'.result = screen.result]_vars

\* worldToScreen returned a finite point from the matrices of a drawn frame,
\* which are still the stored ones, as is everything else the frame left.
C18_Witness ==
    /\ screen.called
    /\ screen.result.finite
    /\ Drawn
    /\ screen.view.assigned
    /\ screen.view = view_matrix[screen.vp]
    /\ screen.projection = projection_matrix[screen.vp]
    /\ screen.rect = rect[screen.vp]
    /\ gl = GLAfterFrame

(***************************************************************************)
(* C21: the space dust pass runs in a frame if and only if the viewport    *)
(* shows space dust and my_spaceship is an entity.  When it runs, the      *)
(* dust-center is the ship's position on the plane z = 0 if the ship has a *)
(* transform and the camera position otherwise, and the velocity uniform   *)
(* is the ship's velocity divided by 100 if it has physics and zero        *)
(* otherwise.  Without a ship the frame leaves the dust array and every    *)
(* dust buffer as they were and draws no dust.                             *)
(***************************************************************************)
DustDrawn(f) == \E i \in DOMAIN f.passes : f.passes[i].pass = "dust"

C21_DustPassIffShownAndShip ==
    [][\A v \in Viewports :
          (DrawnBy(v) /\ ~frame'.skipped)
          => LET enabled == show_spacedust[v]
                 ship == my_spaceship # NoShip
             IN  /\ DustDrawn(frame') <=> (enabled /\ ship)
                 /\ frame'.dust_ran <=> (enabled /\ ship)
                 /\ (enabled /\ ship)
                    => /\ frame'.dust_center =
                             IF my_spaceship.transform # NoComponent
                             THEN <<my_spaceship.transform[1], my_spaceship.transform[2], 0>>
                             ELSE camera_position[v]
                       /\ frame'.dust_vector =
                             IF my_spaceship.physics # NoComponent
                             THEN [velocity |-> my_spaceship.physics, divisor |-> 100]
                             ELSE [velocity |-> <<0, 0>>, divisor |-> 1]
                 /\ ~ship => /\ UNCHANGED <<space_dust, spacedust_buffer>>
                             /\ frame'.respawned = {}
                             /\ frame'.buffer_writes = 0]_vars

\* A dust pass ran around the camera for a ship without transform and physics,
\* and the viewport's buffer holds what it respawned there.
C21_Witness ==
    /\ DustPassRan
    /\ my_spaceship = ShipNowhere
    /\ frame.dust_center = camera_position[frame.vp]
    /\ frame.dust_vector.velocity = <<0, 0>>
    /\ frame.respawned # {}
    /\ spacedust_buffer[frame.vp] = space_dust
    /\ space_dust # ZeroedPositions

(***************************************************************************)
(* C22: the sign range of every dust buffer holds -1, +1 alternating, one  *)
(* pair per particle, from construction on, and no frame writes it: the    *)
(* upload of a frame starts at byte 0, covers 2 * N * sizeof(vec3) bytes   *)
(* and so ends where the sign range starts.                                *)
(***************************************************************************)
Alternating == [n \in 1..(2 * NumParticles) |-> IF n % 2 = 1 THEN -1 ELSE 1]

C22_SignsWrittenOnce ==
    /\ [](\A v \in Viewports : spacedust_signs[v] = Alternating)
    /\ [][\A v \in Viewports :
             DrawnBy(v)
             => /\ spacedust_signs' = spacedust_signs
                /\ frame'.upload.offset = 0
                /\ frame'.upload.offset + frame'.upload.size
                      <= 2 * NumParticles * SizeofVec3
                /\ frame'.buffer_writes = 1
                   => frame'.upload.size = 2 * NumParticles * SizeofVec3]_vars

\* A frame uploaded respawned positions up to the first byte of the sign
\* range, and the signs behind them are the constructor's.
C22_Witness ==
    /\ DustPassRan
    /\ frame.buffer_writes = 1
    /\ frame.upload = [offset |-> 0, size |-> SignOffset]
    /\ spacedust_buffer[frame.vp] # ZeroedPositions
    /\ \A i \in DustIndices : spacedust_buffer[frame.vp][i] # <<0, 0, 0>>
    /\ spacedust_signs[frame.vp] = Alternating

(***************************************************************************)
(* SpecSharedDust: several viewports show space dust and draw in any       *)
(* order, as a main screen and a window of the same process do; the ship   *)
(* flies from the origin away and back.  Every respawn lands in the shell. *)
(***************************************************************************)
SharedShips == {ShipAtOrigin, ShipAway}

InitSharedDust ==
    /\ InitCommon
    /\ InitHudOff
    /\ rect = [v \in Viewports |-> FullSize]
    /\ camera_position = [v \in Viewports |-> CameraFar]
    /\ show_spacedust \in [Viewports -> BOOLEAN]
    /\ default_skybox = NoInfo
    /\ zones = <<>>
    /\ emitter = [e \in Entities |-> Emitter(0, e)]
    /\ elapsed = 0
    /\ my_spaceship \in SharedShips

NextSharedDust ==
    \/ \E v \in Viewports : onDraw(v, [k \in Pairs |-> RandomInShell])
    \/ \E ship \in SharedShips : SetShip(ship)
    \/ \E v \in Viewports, on \in BOOLEAN : showSpaceDust(v, on)

SpecSharedDust == InitSharedDust /\ [][NextSharedDust]_vars

(***************************************************************************)
(* C23: after every space dust pass of a viewport, the position range of   *)
(* that viewport's own dust buffer equals the dust array the pass has      *)
(* examined, also when several viewports draw dust in interleaved frames.  *)
(***************************************************************************)
C23_BufferHoldsArray ==
    DustPassRan => spacedust_buffer[frame.vp] = space_dust

(***************************************************************************)
(* SpecAspect: the layout gives the viewports any rectangle, of width 0,   *)
(* of height 0 or of neither, between the frames; nothing else happens.    *)
(***************************************************************************)
AspectSizes == {FullSize, HiddenSize, FlatSize}

InitAspect ==
    /\ InitCommon
    /\ InitHudOff
    /\ rect \in [Viewports -> AspectSizes]
    /\ camera_position = [v \in Viewports |-> CameraFar]
    /\ show_spacedust = [v \in Viewports |-> FALSE]
    /\ default_skybox = NoInfo
    /\ zones = <<>>
    /\ emitter = [e \in Entities |-> Emitter(0, e)]
    /\ elapsed = 0
    /\ my_spaceship = NoShip

NextAspect ==
    \/ \E v \in Viewports : onDraw(v, [k \in Pairs |-> RandomInShell])
    \/ \E v \in Viewports, size \in AspectSizes : Resize(v, size)

SpecAspect == InitAspect /\ [][NextAspect]_vars

(***************************************************************************)
(* C24: every frame that is not skipped has computed its projection, and   *)
(* handed the entity renderer its aspect ratio, from a rectangle whose     *)
(* height is not zero: width / height divides by no zero.                  *)
(***************************************************************************)
C24_HeightNonZero ==
    Drawn => /\ projection_matrix[frame.vp].assigned
             /\ projection_matrix[frame.vp].aspect[2] # 0

=============================================================================
